---- MODULE Spec2Model ----
(***************************************************************************)
(* A model of cart-rs, an Adaptive Radix Tree (src/src/lib.rs), driven the *)
(* way its model-based test drives it (src/tests/quickcheck.rs): every     *)
(* set is applied to the tree and to a reference map, every get is         *)
(* answered by both.                                                       *)
(*                                                                         *)
(* Raw pointers are addresses into `heap`, the sequence of nodes boxed so  *)
(* far; NULL is address 0.  Rust slices and arrays are 0-based: arrays     *)
(* are functions over 0..n-1, byte strings are sequences read through At,  *)
(* SliceFrom and SliceTo.  Option<T> is <<>> (None) or <<v>> (Some(v)).    *)
(***************************************************************************)
EXTENDS Integers, Sequences, FiniteSets, TLC

\* ------------------------------------------------------------------ bounds

\* Number of set calls explored by Spec.
MaxOps == 3

\* Bytes and lengths of the keys Spec draws, and the values it stores.
KeyBytes == {1, 2}
KeyLens == {0, 1, 2}
Values == {1, 2}

Keys == UNION {[1..n -> KeyBytes] : n \in KeyLens}

\* --------------------------------------------------------------- helpers

NULL == 0
None == <<>>
Some(v) == <<v>>

Byte == 0..255

MinOf(S) == CHOOSE x \in S : \A y \in S : x <= y
MaxOf(S) == CHOOSE x \in S : \A y \in S : y <= x

\* s[i] of a Rust slice
At(s, i) == s[i + 1]
\* &s[from..]
SliceFrom(s, from) == SubSeq(s, from + 1, Len(s))
\* &s[..to]
SliceTo(s, to) == SubSeq(s, 1, to)

\* a.starts_with(b)
StartsWith(a, b) == Len(b) <= Len(a) /\ SubSeq(a, 1, Len(b)) = b

\* [x; n]
Filled(n, x) == [i \in 0..(n - 1) |-> x]

\* ----------------------------------------------------------------- nodes

\* Node::default()
NodeDefault ==
  [kind |-> 4, value |-> None, prefix |-> <<>>,
   index |-> Filled(4, 255), pointers |-> Filled(4, NULL)]

\* the leaf literal of insert's last branch: index is [0u8; 4]
NewLeaf(value, prefix) ==
  [kind |-> 4, value |-> Some(value), prefix |-> prefix,
   index |-> Filled(4, 0), pointers |-> Filled(4, NULL)]

set_prefix(n, p) == [n EXCEPT !.prefix = p]

set_value(n, v) == [n EXCEPT !.value = Some(v)]

\* is_full without the Node16 arm: a Node16 is never reported full
is_full_no16(n) == n.kind # 16 /\ \A i \in DOMAIN n.pointers : n.pointers[i] # NULL

\* is_full with any() in place of all()
is_full_any(n) == \E i \in DOMAIN n.pointers : n.pointers[i] # NULL

is_full(n) == \A i \in DOMAIN n.pointers : n.pointers[i] # NULL

RECURSIVE cpl_from(_, _, _)
cpl_from(a, b, i) ==
  IF i >= Len(a) \/ i >= Len(b) THEN i
  ELSE IF At(a, i) # At(b, i) THEN i
  ELSE cpl_from(a, b, i + 1)

common_prefix_len(a, b) == cpl_from(a, b, 0)

\* Option<usize>, or the failed assertion of the Node48 arm
FcNone == [tag |-> "none", idx |-> 0]
FcSome(i) == [tag |-> "some", idx |-> i]
FcPanic == [tag |-> "panic", idx |-> 0]

\* find_child with the scan of a Node4 or Node16 starting at slot 1
find_child_from1(n, byte) ==
  CASE n.kind \in {4, 16} ->
         LET hits == {i \in DOMAIN n.index \ {0} :
                        n.index[i] = byte /\ n.pointers[i] # NULL}
         IN  IF hits = {} THEN FcNone ELSE FcSome(MinOf(hits))
    [] n.kind = 48 ->
         LET i == n.index[byte]
         IN  IF i >= 48 THEN FcNone
             ELSE IF n.pointers[i] = NULL THEN FcPanic
             ELSE FcSome(i)
    [] n.kind = 256 -> FcSome(byte)

find_child(n, byte) ==
  CASE n.kind \in {4, 16} ->
         LET hits == {i \in DOMAIN n.index :
                        n.index[i] = byte /\ n.pointers[i] # NULL}
         IN  IF hits = {} THEN FcNone ELSE FcSome(MinOf(hits))
    [] n.kind = 48 ->
         LET i == n.index[byte]
         IN  IF i >= 48 THEN FcNone
             ELSE IF n.pointers[i] = NULL THEN FcPanic
             ELSE FcSome(i)
    [] n.kind = 256 -> FcSome(byte)

\* grow() with the byte table of the new Node48 filled with u8::MAX
grow_max(n) ==
  CASE n.kind = 4 ->
         [kind |-> 16, value |-> n.value, prefix |-> n.prefix,
          index |-> [i \in 0..15 |-> IF i < 4 THEN n.index[i] ELSE 0],
          pointers |-> [i \in 0..15 |-> IF i < 4 THEN n.pointers[i] ELSE NULL]]
    [] n.kind = 16 ->
         [kind |-> 48, value |-> n.value, prefix |-> n.prefix,
          index |-> [b \in Byte |->
                       LET slots == {i \in 0..15 : n.index[i] = b}
                       IN  IF slots = {} THEN 255 ELSE MaxOf(slots)],
          pointers |-> [i \in 0..47 |-> IF i < 16 THEN n.pointers[i] ELSE NULL]]
    [] n.kind = 48 ->
         [kind |-> 256, value |-> n.value, prefix |-> n.prefix,
          index |-> <<>>,
          pointers |-> [b \in Byte |->
                          IF n.index[b] < 48 THEN n.pointers[n.index[b]]
                          ELSE NULL]]
    [] n.kind = 256 -> "panic"

\* The node grow() builds; "panic" for a Node256.
grow(n) ==
  CASE n.kind = 4 ->
         [kind |-> 16, value |-> n.value, prefix |-> n.prefix,
          index |-> [i \in 0..15 |-> IF i < 4 THEN n.index[i] ELSE 0],
          pointers |-> [i \in 0..15 |-> IF i < 4 THEN n.pointers[i] ELSE NULL]]
    [] n.kind = 16 ->
         [kind |-> 48, value |-> n.value, prefix |-> n.prefix,
          index |-> [b \in Byte |->
                       LET slots == {i \in 0..15 : n.index[i] = b}
                       IN  IF slots = {} THEN 0 ELSE MaxOf(slots)],
          pointers |-> [i \in 0..47 |-> IF i < 16 THEN n.pointers[i] ELSE NULL]]
    [] n.kind = 48 ->
         [kind |-> 256, value |-> n.value, prefix |-> n.prefix,
          index |-> <<>>,
          pointers |-> [b \in Byte |->
                          IF n.index[b] < 48 THEN n.pointers[n.index[b]]
                          ELSE NULL]]
    [] n.kind = 256 -> "panic"

\* add_child slotting the address of the box allocated before the child's
add_child_prev(h, a, byte, child) ==
  LET ptr == Len(h)
      h1 == Append(h, child)
      n == h1[a]
      free == {i \in DOMAIN n.pointers : n.pointers[i] = NULL}
  IN  CASE n.kind \in {4, 16} ->
             IF free = {} THEN [heap |-> h1, status |-> "panic"]
             ELSE LET idx == MinOf(free)
                  IN  [heap |-> [h1 EXCEPT ![a].index[idx] = byte,
                                           ![a].pointers[idx] = ptr],
                       status |-> "ok"]
        [] n.kind = 48 ->
             IF free = {} THEN [heap |-> h1, status |-> "panic"]
             ELSE LET idx == MinOf(free)
                  IN  [heap |-> [h1 EXCEPT ![a].index[byte] = idx % 256,
                                           ![a].pointers[idx] = ptr],
                       status |-> "ok"]
        [] n.kind = 256 ->
             IF n.pointers[byte] # NULL THEN [heap |-> h1, status |-> "panic"]
             ELSE [heap |-> [h1 EXCEPT ![a].pointers[byte] = ptr],
                   status |-> "ok"]

\* add_child on the node at address a: the child is boxed first, then slotted.
\* Result: the heap after the call and whether the call panicked.
add_child(h, a, byte, child) ==
  LET ptr == Len(h) + 1
      h1 == Append(h, child)
      n == h1[a]
      free == {i \in DOMAIN n.pointers : n.pointers[i] = NULL}
  IN  CASE n.kind \in {4, 16} ->
             IF free = {} THEN [heap |-> h1, status |-> "panic"]
             ELSE LET idx == MinOf(free)
                  IN  [heap |-> [h1 EXCEPT ![a].index[idx] = byte,
                                           ![a].pointers[idx] = ptr],
                       status |-> "ok"]
        [] n.kind = 48 ->
             IF free = {} THEN [heap |-> h1, status |-> "panic"]
             ELSE LET idx == MinOf(free)
                  IN  [heap |-> [h1 EXCEPT ![a].index[byte] = idx % 256,
                                           ![a].pointers[idx] = ptr],
                       status |-> "ok"]
        [] n.kind = 256 ->
             IF n.pointers[byte] # NULL THEN [heap |-> h1, status |-> "panic"]
             ELSE [heap |-> [h1 EXCEPT ![a].pointers[byte] = ptr],
                   status |-> "ok"]

\* ------------------------------------------------------ insert and get

Ev(e, a, d, b) == [ev |-> e, node |-> a, depth |-> d, byte |-> b]

\* Node::insert on the node at address a.  Result: the heap after the call,
\* "ok" / "panic" / "ub" (a null child pointer dereferenced), and the calls
\* made on the way, in order.
RECURSIVE insert(_, _, _, _, _)
insert(h, a, key, depth, value) ==
  LET n == h[a]
      Panic(evs) == [heap |-> h, status |-> "panic", events |-> evs]
  IN
  IF depth > Len(key) THEN Panic(<<>>)
  ELSE IF n.prefix = SliceFrom(key, depth) THEN
    [heap |-> [h EXCEPT ![a] = set_value(n, value)], status |-> "ok",
     events |-> <<Ev("set_value", a, depth, 0)>>]
  ELSE
    LET cpl == common_prefix_len(key, n.prefix) IN
    IF cpl # Len(n.prefix) THEN
      \* prefix mismatch, create a new parent for the current node
      IF cpl >= Len(n.prefix) \/ cpl >= Len(key) THEN Panic(<<>>)
      ELSE
        LET common_prefix == SliceTo(n.prefix, cpl)
            old_byte == At(n.prefix, cpl)
            old_prefix == SliceFrom(n.prefix, cpl + 1)
            new_byte == At(key, cpl)
            new_prefix == SliceFrom(key, cpl + 1)
            swapped == [h EXCEPT ![a] = set_prefix(NodeDefault, common_prefix)]
            node == set_prefix(n, old_prefix)
            r1 == add_child(swapped, a, old_byte, node)
            new_node == set_value(set_prefix(NodeDefault, new_prefix), value)
            r2 == add_child(r1.heap, a, new_byte, new_node)
            e0 == Ev("split", a, depth, cpl)
            e1 == Ev("add_child", a, depth, old_byte)
            e2 == Ev("add_child", a, depth, new_byte)
        IN  IF r1.status # "ok"
              THEN [heap |-> r1.heap, status |-> "panic", events |-> <<e0, e1>>]
              ELSE [heap |-> r2.heap, status |-> r2.status,
                    events |-> <<e0, e1, e2>>]
    ELSE
      LET d == depth + Len(n.prefix) IN
      IF d >= Len(key) THEN Panic(<<>>)
      ELSE
        LET fc == find_child(n, At(key, d)) IN
        IF fc.tag = "panic" THEN Panic(<<>>)
        ELSE IF fc.tag = "some" THEN
          LET ptr == n.pointers[fc.idx] IN
          IF ptr = NULL
            THEN [heap |-> h, status |-> "ub", events |-> <<>>]
            ELSE insert(h, ptr, key, d + 1, value)
        ELSE
          LET full == is_full(n)
              eg == IF full THEN <<Ev("grow", a, d, n.kind)>> ELSE <<>>
              ea == Ev("add_child", a, d, At(key, d))
          IN
          IF full /\ n.kind = 256 THEN Panic(eg)
          ELSE
            LET grown == IF full THEN [h EXCEPT ![a] = grow(n)] ELSE h
                new_node == NewLeaf(value, SliceFrom(key, d + 1))
                r == add_child(grown, a, At(key, d), new_node)
            IN  [heap |-> r.heap, status |-> r.status,
                 events |-> eg \o <<ea>>]

\* Node::get on the node at address a.
RECURSIVE get(_, _, _)
get(h, a, key) ==
  LET n == h[a] IN
  IF ~StartsWith(key, n.prefix) THEN [status |-> "ok", ret |-> None]
  ELSE
    LET skip == Len(n.prefix) IN
    IF skip = Len(key) THEN [status |-> "ok", ret |-> n.value]
    ELSE
      LET fc == find_child(n, At(key, skip)) IN
      IF fc.tag = "none" THEN [status |-> "ok", ret |-> None]
      ELSE IF fc.tag = "panic" THEN [status |-> "panic", ret |-> None]
      ELSE
        LET child == n.pointers[fc.idx] IN
        IF child = NULL THEN [status |-> "ub", ret |-> None]
        ELSE get(h, child, SliceFrom(key, skip + 1))

\* --------------------------------------------------------------- state

VARIABLES
  heap,      \* the boxed nodes, by address (Box::into_raw, lib.rs:20, 331)
  root,      \* Art.root (lib.rs:11)
  model,     \* the reference map of the test (quickcheck.rs:41)
  history,   \* the Set ops taken from ops so far, in order (quickcheck.rs:43)
  last,      \* the last call, what it returned and the calls insert made
  panicked   \* a call panicked: the thread is gone

vars == <<heap, root, model, history, last, panicked>>

\* BTreeMap::get
ModelGet(m, k) == IF k \in DOMAIN m THEN Some(m[k]) ELSE None

\* BTreeMap::insert
ModelInsert(m, k, v) == [x \in DOMAIN m \cup {k} |-> IF x = k THEN v ELSE m[x]]

NoCall == [op |-> "none", key |-> <<>>, ret |-> None, events |-> <<>>]

\* Art::default() and an empty BTreeMap
Init ==
  /\ heap = <<NodeDefault>>
  /\ root = 1
  /\ model = <<>>
  /\ history = <<>>
  /\ last = NoCall
  /\ panicked = FALSE

\* What a build may do with a call that ran into undefined behaviour.
SetOutcomes(r) ==
  IF r.status = "ub" THEN {TRUE, FALSE} ELSE {r.status = "panic"}

GetOutcomes(r) ==
  IF r.status = "ub"
    THEN {[status |-> "panic", ret |-> None]}
           \cup {[status |-> "ok", ret |-> o] : o \in {None} \cup {Some(v) : v \in Values}}
    ELSE {r}

\* implementation.set(k, v); model.insert(k, v)
Set(k, v) ==
  /\ ~panicked
  /\ LET r == insert(heap, root, k, 0, v) IN
     \E p \in SetOutcomes(r) :
       /\ heap' = r.heap
       /\ panicked' = p
       /\ model' = IF p THEN model ELSE ModelInsert(model, k, v)
       /\ last' = [op |-> "set", key |-> k, ret |-> Some(v), events |-> r.events]
  /\ history' = Append(history, [key |-> k, value |-> v])
  /\ UNCHANGED root

\* the address of the node whose value get returns, NULL when it returns None
\* before reaching one
RECURSIVE get_node(_, _, _)
get_node(h, a, key) ==
  LET n == h[a] IN
  IF ~StartsWith(key, n.prefix) THEN NULL
  ELSE IF Len(n.prefix) = Len(key) THEN a
  ELSE LET fc == find_child(n, At(key, Len(n.prefix)))
       IN  IF fc.tag # "some" \/ n.pointers[fc.idx] = NULL THEN NULL
           ELSE get_node(h, n.pointers[fc.idx], SliceFrom(key, Len(n.prefix) + 1))

\* a get that moves the value out of the node (value.take()) instead of
\* borrowing it
GetTaking(k) ==
  /\ ~panicked
  /\ \E o \in GetOutcomes(get(heap, root, k)) :
       /\ panicked' = (o.status = "panic")
       /\ last' = [op |-> "get", key |-> k, ret |-> o.ret, events |-> <<>>]
  /\ heap' = IF get_node(heap, root, k) = NULL THEN heap
             ELSE [heap EXCEPT ![get_node(heap, root, k)].value = None]
  /\ UNCHANGED <<root, model, history>>

\* implementation.get(k), to be compared with model.get(k)
Get(k) ==
  /\ ~panicked
  /\ \E o \in GetOutcomes(get(heap, root, k)) :
       /\ panicked' = (o.status = "panic")
       /\ last' = [op |-> "get", key |-> k, ret |-> o.ret, events |-> <<>>]
  /\ UNCHANGED <<heap, root, model, history>>

\* -------------------------------------------- Spec: any calls, small keys
\* A caller issues set and get in any order.  The test's loop returns at the
\* first get that differs from the map; here the calls go on, and the
\* difference is what the properties below look for.

SetOp == Len(history) < MaxOps /\ \E k \in Keys, v \in Values : Set(k, v)

GetOp == \E k \in Keys : Get(k)

Next == SetOp \/ GetOp

Spec == Init /\ [][Next]_vars

\* ------------------------- SpecHarness: the test's keys and its two scripts

KEY_SPACE == 20

\* vec![k; k as usize]
HKey(k) == [i \in 1..k |-> k]

\* the Set(k, v) of test_1 and test_2
Test1 ==
  << <<15, 67>>, <<9, 182>>, <<12, 221>>, <<16, 122>>, <<3, 41>>, <<5, 209>>,
     <<2, 96>>, <<10, 227>>, <<13, 37>>, <<4, 182>>, <<17, 218>>, <<6, 139>>,
     <<18, 249>>, <<19, 209>>, <<14, 34>>, <<11, 104>>, <<8, 89>>, <<1, 110>> >>

Test2 ==
  << <<9, 58>>, <<4, 10>>, <<2, 209>>, <<5, 3>>, <<14, 175>>, <<1, 73>>,
     <<8, 53>>, <<18, 244>>, <<12, 227>>, <<15, 255>>, <<3, 92>>, <<6, 102>>,
     <<19, 239>>, <<17, 240>>, <<7, 227>>, <<11, 41>>, <<16, 15>>, <<10, 215>>,
     <<10, 82>> >>

Scripts == {Test1, Test2}

HOp(s, i) == [key |-> HKey(s[i][1]), value |-> s[i][2]]

\* the next Set of a script whose earlier Sets are the ones issued so far
HarnessSet ==
  \E s \in Scripts :
    /\ Len(history) < Len(s)
    /\ \A i \in 1..Len(history) : history[i] = HOp(s, i)
    /\ Set(HOp(s, Len(history) + 1).key, HOp(s, Len(history) + 1).value)

HarnessGet == \E k \in 0..(KEY_SPACE - 1) : Get(HKey(k))

NextHarness == HarnessSet \/ HarnessGet

SpecHarness == Init /\ [][NextHarness]_vars

\* ------- SpecAll: sets of short keys, the scripts, and calls off the scripts

\* Number of set calls explored after leaving the scripts.
MaxFree == 1

\* The values those calls store.
FreeValues == {0}

\* how many of the set calls issued so far follow one of the scripts
ScriptLen ==
  MaxOf({n \in 0..Len(history) :
           \E s \in Scripts :
             n <= Len(s) /\ \A i \in 1..n : history[i] = HOp(s, i)})

\* any Set(k, v) the test may generate, after a script or part of one
FreeSet ==
  /\ ScriptLen > 0
  /\ Len(history) - ScriptLen < MaxFree
  /\ \E k \in 0..(KEY_SPACE - 1), v \in FreeValues : Set(HKey(k), v)

\* a get of the key just set
GetLast == last.op = "set" /\ Get(last.key)

\* Keys of up to three bytes: long enough for a node below the root to hold
\* a prefix of two bytes, where a key can part from it at the second byte.
DeepLens == {0, 1, 2, 3}
DeepKeys == UNION {[1..n -> KeyBytes] : n \in DeepLens}

\* a set of any such key, on a tree no script has touched
SmallSet ==
  /\ ScriptLen = 0
  /\ Len(history) < MaxOps
  /\ \E k \in DeepKeys, v \in FreeValues : Set(k, v)

NextAll == SmallSet \/ HarnessSet \/ FreeSet \/ GetLast

SpecAll == Init /\ [][NextAll]_vars

\* ------------------------------------------------------------- claims

Ok(o) == [status |-> "ok", ret |-> o]

\* what Art::get would return now
TreeGet(k) == get(heap, root, k)

\* the keys passed to set so far, and the value last passed for each
Written == {history[i].key : i \in 1..Len(history)}
LastValue(k) ==
  history[MaxOf({i \in 1..Len(history) : history[i].key = k})].value

\* k + e for some non-empty e
ProperlyExtends(long, short) == Len(short) < Len(long) /\ StartsWith(long, short)

\* C1 (as claimed): every get returns what the reference map returns for the
\* same key, at every point of every sequence of set and get calls.
C1_ModelEquivalence ==
  last.op = "get" => (~panicked /\ last.ret = ModelGet(model, last.key))

\* C2 (as claimed): set and get always complete; no call panics or
\* dereferences a null pointer.
C2_SetGetTotal == ~panicked

\* C3 (as claimed): when the last two set calls were set(k, v1) and
\* set(k + e, v2) with e non-empty, in either order, both completed and
\* get(k) returns v1 and get(k + e) returns v2.
C3_PrefixIndependence ==
  Len(history) >= 2 =>
    LET a == history[Len(history) - 1]
        b == history[Len(history)]
    IN  (ProperlyExtends(a.key, b.key) \/ ProperlyExtends(b.key, a.key)) =>
          /\ ~panicked
          /\ TreeGet(a.key) = Ok(Some(a.value))
          /\ TreeGet(b.key) = Ok(Some(b.value))

\* The key's path from node a parts from a stored prefix before the prefix
\* and the key end.
RECURSIVE Diverges(_, _, _)
Diverges(h, a, key) ==
  LET n == h[a]
      c == common_prefix_len(key, n.prefix)
  IN  IF c < Len(n.prefix) THEN c < Len(key)
      ELSE IF c = Len(key) THEN FALSE
      ELSE LET fc == find_child(n, At(key, c))
           IN  /\ fc.tag = "some"
               /\ n.pointers[fc.idx] # NULL
               /\ Diverges(h, n.pointers[fc.idx], SliceFrom(key, c + 1))

\* the step is a set call
SetStep == history' # history
SetKey == history'[Len(history')].key
SetValue == history'[Len(history')].value

\* C4 (as claimed): a set(k2, v2) whose key diverges partway through the
\* stored prefix of a node on its path completes, leaves get of every other
\* key that returned a value returning that value, and makes get(k2)
\* return v2.
C4_SplitCorrectness ==
  [][(SetStep /\ Diverges(heap, root, SetKey)) =>
       /\ ~panicked'
       /\ get(heap', root', SetKey) = Ok(Some(SetValue))
       /\ \A k \in Written \ {SetKey} :
            get(heap, root, k).ret # None => get(heap', root', k) = get(heap, root, k)]_vars

\* C5 (as claimed): once a node has grown (4->16, 16->48, 48->256), every
\* key set so far, before or after the growth, is returned by get with its
\* last-written value.
C5_GrowthCorrectness ==
  (\E a \in DOMAIN heap : heap[a].kind # 4) =>
    /\ ~panicked
    /\ \A k \in Written : TreeGet(k) = Ok(Some(LastValue(k)))

\* the set calls of ops replayed on a fresh tree
RECURSIVE Replay(_, _)
Replay(r, ops) ==
  IF ops = <<>> \/ r.status # "ok" THEN r
  ELSE Replay(insert(r.heap, 1, ops[1].key, 0, ops[1].value), Tail(ops))

Fresh == [heap |-> <<NodeDefault>>, status |-> "ok", events |-> <<>>]

Perms(n) == {p \in [1..n -> 1..n] : \A i, j \in 1..n : p[i] = p[j] => i = j}

DistinctKeys(ops) ==
  \A i, j \in 1..Len(ops) : ops[i].key = ops[j].key => i = j

\* C6 (as claimed): the set calls issued so far having distinct keys, every
\* permutation of them completes on a fresh tree and yields the same get
\* result for every key.
C6_OrderIndependence ==
  DistinctKeys(history) =>
    \A p \in Perms(Len(history)) :
      LET r == Replay(Fresh, [i \in 1..Len(history) |-> history[p[i]]])
      IN  /\ r.status = "ok"
          /\ \A q \in Perms(Len(history)) :
               LET t == Replay(Fresh, [i \in 1..Len(history) |-> history[q[i]]])
               IN  \A k \in Keys : get(r.heap, 1, k) = get(t.heap, 1, k)

\* C7 (as claimed): a set(k, v2) issued right after a set(k, v1) completes,
\* makes get(k) return v2 and leaves get of every other key unchanged.
C7_Overwrite ==
  [][(SetStep /\ history # <<>> /\ history[Len(history)].key = SetKey) =>
       /\ ~panicked'
       /\ get(heap', root', SetKey) = Ok(Some(SetValue))
       /\ \A k \in Keys \ {SetKey} : get(heap', root', k) = get(heap, root, k)]_vars

\* the keys get is tried with: the keys of Spec and their one-byte extensions
ProbeKeys == Keys \cup {Append(k, b) : k \in Keys, b \in KeyBytes}

\* C8 (as claimed): get returns absent for every key never passed to set.
C8_NoPhantomKeys ==
  \A k \in ProbeKeys \ Written : TreeGet(k) = Ok(None)

\* C9 (as claimed): with the test's keys, once 18 or more distinct keys have
\* been set, every set has completed and every key set is returned by get
\* with its last-written value.
C9_EighteenKeys ==
  Cardinality(Written) >= 18 =>
    /\ ~panicked
    /\ \A k \in Written : TreeGet(k) = Ok(Some(LastValue(k)))

\* C10: a get call, whether it finds the key or not, leaves every node of
\* the tree (kind, value, prefix, index, pointers) and the root as they were.
C10_GetReadOnly ==
  [][(~SetStep /\ last'.op = "get") => (heap' = heap /\ root' = root)]_vars

\* a get has found a value below the root
C10_Witness ==
  last.op = "get" /\ last.ret # None /\ Len(last.key) > 0 /\ Len(heap) > 2

\* the calls of one kind that the last set made
EventsOf(evs, kind) == {evs[i] : i \in {j \in 1..Len(evs) : evs[j].ev = kind}}

\* C11 (as claimed): a split made by set(key, _) at a node reached at depth d
\* uses common = common_prefix_len(key[d..], prefix): the split node keeps
\* prefix[..common], and the new leaf, the node boxed last, is the child for
\* byte key[d + common] and stores prefix key[d + common + 1..] (the key
\* reaching past the common bytes).
C11_SplitAtDepth ==
  [][SetStep =>
       \A e \in EventsOf(last'.events, "split") :
         LET d == e.depth
             common == common_prefix_len(SliceFrom(SetKey, d), heap[e.node].prefix)
             parent == heap'[e.node]
             leaf == Len(heap')
         IN  d + common < Len(SetKey) =>
             /\ e.byte = common
             /\ parent.prefix = SliceTo(heap[e.node].prefix, common)
             /\ find_child(parent, At(SetKey, d + common)).tag = "some"
             /\ parent.pointers[find_child(parent, At(SetKey, d + common)).idx] = leaf
             /\ heap'[leaf].prefix = SliceFrom(SetKey, d + common + 1)]_vars

\* the occupied child slots of a node
Occupied(n) == {i \in DOMAIN n.pointers : n.pointers[i] # NULL}

\* C12 (as claimed): in a Node48 only the bytes that have a child hold a slot
\* in the byte-to-slot table, every other entry holds u8::MAX and find_child
\* returns none for it: the entries that are not u8::MAX, and the bytes
\* find_child answers for, are as many as the node's children.
C12_Node48Sentinel ==
  \A a \in DOMAIN heap :
    heap[a].kind = 48 =>
      /\ Cardinality({b \in Byte : heap[a].index[b] # 255})
           = Cardinality(Occupied(heap[a]))
      /\ Cardinality({b \in Byte : find_child(heap[a], b).tag # "none"})
           = Cardinality(Occupied(heap[a]))

\* the child find_child designates for a byte, NULL when it designates none
ChildOf(n, b) ==
  LET fc == find_child(n, b)
  IN  IF fc.tag = "some" THEN n.pointers[fc.idx] ELSE NULL

GrowKeeps(n) ==
  /\ grow(n).value = n.value
  /\ grow(n).prefix = n.prefix
  /\ \A b \in Byte : ChildOf(grow(n), b) = ChildOf(n, b)

\* C13 (as claimed): every grow a set makes (4->16, 16->48, 48->256) keeps
\* the node's value and prefix, and for every byte find_child designates the
\* same child after it as before, or none after it as before.
C13_GrowFrame ==
  [][SetStep =>
       \A e \in EventsOf(last'.events, "grow") : GrowKeeps(heap[e.node])]_vars

\* the occupied slots of a node associated with a byte
SlotsOf(n, b) ==
  CASE n.kind \in {4, 16} -> {i \in Occupied(n) : n.index[i] = b}
    [] n.kind = 48 -> {i \in Occupied(n) : n.index[b] = i}
    [] n.kind = 256 -> {i \in Occupied(n) : i = b}

\* no byte is associated with two occupied slots of a node
NoSharedByte(h) ==
  \A a \in DOMAIN h :
    IF h[a].kind \in {4, 16}
      THEN \A i, j \in Occupied(h[a]) : h[a].index[i] = h[a].index[j] => i = j
      ELSE \A b \in Byte : Cardinality(SlotsOf(h[a], b)) <= 1

\* C14: in every node no two occupied child slots are associated with the
\* same key byte, and no set calls add_child with a byte that already has a
\* child: outside a split, find_child(byte) was none on the node when insert
\* looked; in a split, the two bytes added to the new node differ.
C14_DistinctBytes ==
  [][/\ NoSharedByte(heap')
     /\ SetStep =>
          LET adds == EventsOf(last'.events, "add_child")
              split == EventsOf(last'.events, "split") # {}
          IN  /\ ~split => \A e \in adds : find_child(heap[e.node], e.byte).tag = "none"
              /\ split /\ ~panicked' => Cardinality({e.byte : e \in adds}) = 2]_vars

\* a set has split a node of a tree that holds a Node48
C14_Witness ==
  /\ ~panicked
  /\ EventsOf(last.events, "split") # {}
  /\ \E a \in DOMAIN heap : heap[a].kind = 48

\* every child slot of the node is occupied
Full(n) == Occupied(n) = DOMAIN n.pointers

\* C15: a set grows a node only when the node is full and has no child for
\* the byte it must accept, and the grow comes right before the add_child of
\* that byte on that node; no add_child is made on a full node: outside a
\* split the node, grown if it was grown, has a free slot, and a split adds
\* its two children to a new Node4.
C15_LazyGrowth ==
  [][SetStep =>
       LET evs == last'.events
           split == EventsOf(evs, "split") # {}
       IN  /\ \A i \in 1..Len(evs) :
                evs[i].ev = "grow" =>
                  /\ Full(heap[evs[i].node])
                  /\ i < Len(evs)
                  /\ evs[i + 1].ev = "add_child"
                  /\ evs[i + 1].node = evs[i].node
                  /\ find_child(heap[evs[i].node], evs[i + 1].byte).tag = "none"
           /\ \A i \in 1..Len(evs) :
                (evs[i].ev = "add_child" /\ ~split) =>
                  IF i > 1 /\ evs[i - 1].ev = "grow"
                    THEN ~Full(grow(heap[evs[i].node]))
                    ELSE ~Full(heap[evs[i].node])
           /\ split =>
                /\ EventsOf(evs, "grow") = {}
                /\ \A e \in EventsOf(evs, "split") :
                     /\ heap'[e.node].kind = 4
                     /\ Cardinality(Occupied(heap'[e.node])) = Cardinality(EventsOf(evs, "add_child"))]_vars

\* a set has grown a full Node16 and added the child that did not fit
C15_Witness ==
  /\ ~panicked
  /\ \E e \in EventsOf(last.events, "grow") : e.byte = 16
  /\ \E a \in DOMAIN heap : heap[a].kind = 48 /\ Cardinality(Occupied(heap[a])) = 17

\* C16: after a split of the node at a tree position, where common is the
\* length of the bytes the rest of the key shares with the node's prefix, the
\* position holds a node with no value, those common bytes as its prefix and
\* exactly two children; the original node, with its value and its children,
\* holds prefix old_prefix[common+1..] and is the child for old_prefix[common].
C16_SplitStructure ==
  [][(SetStep /\ ~panicked') =>
       \A e \in EventsOf(last'.events, "split") :
         LET old == heap[e.node]
             common == common_prefix_len(SliceFrom(SetKey, e.depth), old.prefix)
             parent == heap'[e.node]
             fc == find_child(parent, At(old.prefix, common))
         IN  common < Len(old.prefix) =>
               /\ parent.value = None
               /\ parent.prefix = SliceTo(old.prefix, common)
               /\ Cardinality(Occupied(parent)) = 2
               /\ fc.tag = "some"
               /\ parent.pointers[fc.idx] # NULL
               /\ heap'[parent.pointers[fc.idx]] =
                    [old EXCEPT !.prefix = SliceFrom(old.prefix, common + 1)]]_vars

\* the addresses held by the child slots of the node at address a
Children(a) == {heap[a].pointers[i] : i \in Occupied(heap[a])}

\* the addresses reached from the set S by following child slots
RECURSIVE Reach(_)
Reach(S) ==
  LET Step == S \cup UNION {Children(a) : a \in S}
  IN  IF Step = S THEN S ELSE Reach(Step)

\* C17: in every reachable state every node but the root is held by exactly
\* one child slot of exactly one parent and the root by none, every child
\* slot holds a node of the tree, and every node hangs below the root: the
\* structure is a tree, with no cycle.
C17_TreeOwnership ==
  LET ch == [a \in DOMAIN heap |-> Children(a)]
  IN  /\ \A a \in DOMAIN heap :
           /\ Cardinality(ch[a]) = Cardinality(Occupied(heap[a]))
           /\ ch[a] \subseteq DOMAIN heap \ {root}
      /\ \A c \in DOMAIN heap \ {root} :
           Cardinality({a \in DOMAIN heap : c \in ch[a]}) = 1
      /\ Reach({root}) = DOMAIN heap

\* a tree of three levels under a grown root: a Node48 and a split below it
C17_Witness ==
  /\ ~panicked
  /\ \E a \in DOMAIN heap : heap[a].kind = 48
  /\ \E a \in DOMAIN heap \ {root} : Occupied(heap[a]) # {}

\* the slots add_child may take in node n for the given byte
FreeFor(n, byte) ==
  IF n.kind = 256 THEN {i \in {byte} : n.pointers[i] = NULL}
  ELSE DOMAIN n.pointers \ Occupied(n)

\* C18: no set and no get reaches one of the internal fatal checks: grow is
\* not called on a Node256; every add_child finds a slot to take (a free one,
\* and in a Node256 the byte's own slot is empty); a set that panics has
\* called neither grow nor add_child, so its panic is not one of theirs; and
\* no Node48 in the tree has a byte whose table entry is a valid slot with a
\* null pointer, so the assertion in find_child holds for any byte looked up.
C18_NoContractViolation ==
  [][SetStep =>
       LET evs == last'.events
           split == EventsOf(evs, "split") # {}
       IN  /\ \A i \in 1..Len(evs) :
                evs[i].ev = "grow" => evs[i].byte # 256
           /\ \A i \in 1..Len(evs) :
                (evs[i].ev = "add_child" /\ ~split) =>
                  LET n == heap[evs[i].node]
                      grown == i > 1 /\ evs[i - 1].ev = "grow" /\ n.kind # 256
                  IN  FreeFor(IF grown THEN grow(n) ELSE n, evs[i].byte) # {}
           /\ split => \A e \in EventsOf(evs, "split") : heap'[e.node].kind = 4
           /\ panicked' => evs = <<>>
           /\ \A a \in DOMAIN heap' :
                heap'[a].kind = 48 =>
                  \A b \in Byte : find_child(heap'[a], b).tag # "panic"]_vars

\* a get has gone through a Node48 and returned
C18_Witness ==
  /\ ~panicked
  /\ last.op = "get"
  /\ Len(last.key) > 1
  /\ heap[root].kind = 48

====
